---- MODULE Spec2Model ----
(***************************************************************************)
(* A model of the DNS client of this repository: the query encoder         *)
(* (src/client/dns_query.py), the transport loop and entry point           *)
(* (src/dns_client.py) and the response decoder (src/dns_response.py).     *)
(* The older client and decoder kept in src/client are modelled too        *)
(* (SpecClient), as is a caller that runs two threads (SpecPair).          *)
(*                                                                         *)
(* Byte strings are sequences of integers 0..255, indexed from 0 in the    *)
(* source and from 1 here (At and Slice do the shift).  Text strings are   *)
(* sequences of Unicode code points; encoding to and decoding from UTF-8   *)
(* is computed, byte by byte, as Python does.  An uncaught Python          *)
(* exception ends the program: pc = "failed" and err names the exception.  *)
(***************************************************************************)
EXTENDS Integers, Sequences, FiniteSets, TLC

\* ------------------------------------------------------------------ bounds
\* longest domain, in characters, among the exhaustively enumerated domains
MaxLen == 3
\* most labels in a domain built from long labels
MaxRuns == 4
\* depth at which the interpreter stops a runaway recursion (RecursionError);
\* CPython's limit is 1000 frames, scaled down here
MaxDepth == 6

\* ------------------------------------------------------- integers and bytes
RECURSIVE BitOr(_, _)
\* Python's a | b on non-negative integers
BitOr(a, b) ==
    IF a = 0 THEN b
    ELSE IF b = 0 THEN a
    ELSE (IF a % 2 = 1 \/ b % 2 = 1 THEN 1 ELSE 0) + 2 * BitOr(a \div 2, b \div 2)

RECURSIVE BitAnd(_, _)
\* Python's a & b on non-negative integers
BitAnd(a, b) ==
    IF a = 0 \/ b = 0 THEN 0
    ELSE (IF a % 2 = 1 /\ b % 2 = 1 THEN 1 ELSE 0) + 2 * BitAnd(a \div 2, b \div 2)

\* Python's a << n and a >> n
Shl(a, n) == a * (2 ^ n)
Shr(a, n) == a \div (2 ^ n)

\* struct.pack('>H', n) and n.to_bytes(2, byteorder='big'), for n in 0..65535
U16BE(n) == << n \div 256, n % 256 >>

\* response[i] for an index i inside the buffer (0-based)
At(buf, i) == buf[i + 1]

\* buf[a:b]: Python slicing clamps to the buffer and never fails
Slice(buf, a, b) ==
    LET lo == IF a > Len(buf) THEN Len(buf) ELSE a
        hi == IF b > Len(buf) THEN Len(buf) ELSE b
    IN  IF hi <= lo THEN << >> ELSE SubSeq(buf, lo + 1, hi)

\* struct.unpack('>H', ...) of the two bytes at i, i+1
U16At(buf, i) == At(buf, i) * 256 + At(buf, i + 1)

\* struct.unpack('>I', ...) of the four bytes at i..i+3: the unsigned 32-bit
\* value, kept as its high and low 16-bit halves << hi, lo >> (hi * 65536 + lo)
U32At(buf, i) == << U16At(buf, i), U16At(buf, i + 2) >>

\* n copies of c
Repeat(c, n) == [i \in 1..n |-> c]

RECURSIVE ConcatRange(_, _, _)
\* ss[lo] \o ... \o ss[hi], by halves
ConcatRange(ss, lo, hi) ==
    IF lo > hi THEN << >>
    ELSE IF lo = hi THEN ss[lo]
    ELSE ConcatRange(ss, lo, (lo + hi) \div 2) \o ConcatRange(ss, ((lo + hi) \div 2) + 1, hi)

\* the concatenation of a sequence of sequences
Concat(ss) == ConcatRange(ss, 1, Len(ss))

\* sep.join(parts)
Join(parts, sep) ==
    Concat([i \in 1..Len(parts) |-> IF i = 1 THEN parts[i] ELSE sep \o parts[i]])

\* ------------------------------------------------------------------ UTF-8
\* str.encode('utf-8') of one code point (no surrogates among the inputs)
EncodeChar(cp) ==
    IF cp < 128 THEN << cp >>
    ELSE IF cp < 2048 THEN << 192 + (cp \div 64), 128 + (cp % 64) >>
    ELSE IF cp < 65536
         THEN << 224 + (cp \div 4096), 128 + ((cp \div 64) % 64), 128 + (cp % 64) >>
    ELSE << 240 + (cp \div 262144), 128 + ((cp \div 4096) % 64),
            128 + ((cp \div 64) % 64), 128 + (cp % 64) >>

\* str.encode('utf-8')
Utf8Encode(s) == Concat([i \in 1..Len(s) |-> EncodeChar(s[i])])

Cont(b) == b >= 128 /\ b <= 191

RECURSIVE Utf8DecodeFrom(_, _, _)
\* the decoding of b from its byte i on, after the characters `chars`
Utf8DecodeFrom(b, i, chars) ==
    IF i > Len(b) THEN [ok |-> TRUE, chars |-> chars]
    ELSE IF b[i] < 128 THEN Utf8DecodeFrom(b, i + 1, Append(chars, b[i]))
    ELSE IF /\ b[i] >= 194 /\ b[i] <= 223
            /\ Len(b) >= i + 1 /\ Cont(b[i + 1])
    THEN Utf8DecodeFrom(b, i + 2, Append(chars, (b[i] - 192) * 64 + (b[i + 1] - 128)))
    ELSE IF /\ b[i] >= 224 /\ b[i] <= 239
            /\ Len(b) >= i + 2 /\ Cont(b[i + 1]) /\ Cont(b[i + 2])
            /\ (b[i] = 224 => b[i + 1] >= 160)
            /\ (b[i] = 237 => b[i + 1] <= 159)
    THEN Utf8DecodeFrom(b, i + 3,
                        Append(chars, (b[i] - 224) * 4096 + (b[i + 1] - 128) * 64
                                      + (b[i + 2] - 128)))
    ELSE IF /\ b[i] >= 240 /\ b[i] <= 244
            /\ Len(b) >= i + 3 /\ Cont(b[i + 1]) /\ Cont(b[i + 2]) /\ Cont(b[i + 3])
            /\ (b[i] = 240 => b[i + 1] >= 144)
            /\ (b[i] = 244 => b[i + 1] <= 143)
    THEN Utf8DecodeFrom(b, i + 4,
                        Append(chars, (b[i] - 240) * 262144 + (b[i + 1] - 128) * 4096
                                      + (b[i + 2] - 128) * 64 + (b[i + 3] - 128)))
    ELSE [ok |-> FALSE, chars |-> << >>]

\* bytes.decode('utf-8'): [ok, chars]; ok = FALSE is UnicodeDecodeError
Utf8Decode(b) == Utf8DecodeFrom(b, 1, << >>)

\* the code point of '.'
Dot == << 46 >>

\* the position of the k-th '.' of s; 0 before the first, Len(s) + 1 after the last
DotAt(s, k) ==
    IF k = 0 THEN 0
    ELSE IF k > Cardinality({ i \in 1..Len(s) : s[i] = 46 }) THEN Len(s) + 1
    ELSE CHOOSE i \in 1..Len(s) :
           s[i] = 46 /\ Cardinality({ j \in 1..(i - 1) : s[j] = 46 }) = k - 1

\* domain.split('.'): the pieces between the dots, one more than there are dots
Split(s) ==
    [k \in 1..(Cardinality({ i \in 1..Len(s) : s[i] = 46 }) + 1) |->
        SubSeq(s, DotAt(s, k - 1) + 1, DotAt(s, k) - 1)]

\* the header with RD packed one bit too high, where TC belongs
create_dns_query_header_rd_misplaced(id, qr, opcode, aa, tc, rd, ra, z, rcode, qdcount, ancount, nscount, arcount) ==
    U16BE(id)
    \o << BitOr(BitOr(BitOr(BitOr(Shl(qr, 7), Shl(opcode, 3)), Shl(aa, 2)), Shl(tc, 1)), Shl(rd, 1)) >>
    \o << BitOr(BitOr(Shl(ra, 7), Shl(z, 4)), rcode) >>
    \o U16BE(qdcount) \o U16BE(ancount) \o U16BE(nscount) \o U16BE(arcount)

\* ------------------------------------------------------------ the encoder
\* struct.pack('>HBBHHHH', ...) of the header; id is the transaction id drawn
\* by generate_transaction_id(), which replaces the id argument
create_dns_query_header(id, qr, opcode, aa, tc, rd, ra, z, rcode, qdcount, ancount, nscount, arcount) ==
    U16BE(id)
    \o << BitOr(BitOr(BitOr(BitOr(Shl(qr, 7), Shl(opcode, 3)), Shl(aa, 2)), Shl(tc, 1)), rd) >>
    \o << BitOr(BitOr(Shl(ra, 7), Shl(z, 4)), rcode) >>
    \o U16BE(qdcount) \o U16BE(ancount) \o U16BE(nscount) \o U16BE(arcount)

\* bytes([len(part)]) + part.encode('utf-8'): the length byte counts the
\* characters of the label, the bytes that follow are its UTF-8 encoding
EncodeLabel(part) == << Len(part) >> \o Utf8Encode(part)

\* the for loop over domain.split('.'): bytes([n]) raises ValueError for n > 255
EncodeName(domain) ==
    LET parts == Split(domain)
    IN  IF \E i \in 1..Len(parts) : Len(parts[i]) > 255
        THEN [err |-> "ValueError", bytes |-> << >>]
        ELSE [err |-> "none",
              bytes |-> Concat([i \in 1..Len(parts) |-> EncodeLabel(parts[i])])]

\* DNSQuery.create_dns_query_question: name + b'\x00' + qtype + qclass
create_dns_query_question(domain, qtype, qclass) ==
    LET name == EncodeName(domain)
    IN  IF name.err # "none" THEN name
        ELSE [err |-> "none",
              bytes |-> name.bytes \o << 0 >> \o U16BE(qtype) \o U16BE(qclass)]

\* ------------------------------------------------------------ the decoder
\* one printed line: what it is, its symbolic fields, the owner name, its
\* numbers and its data (an address as its numbers, a name as its characters)
Line(kind, tags, name, vals, data) ==
    [line |-> kind, tags |-> tags, name |-> name, vals |-> vals, data |-> data]

\* struct.unpack('>HHHHHH', response[:12]), for a buffer of 12 bytes or more
HeaderFields(response) ==
    [id      |-> U16At(response, 0),
     flags   |-> U16At(response, 2),
     qdcount |-> U16At(response, 4),
     ancount |-> U16At(response, 6),
     nscount |-> U16At(response, 8),
     arcount |-> U16At(response, 10)]

\* the flags split with OPCODE taken from bits 12..15 and Z masked to two bits
UnpackFlags_opcode_shifted(flags) ==
    [qr     |-> BitAnd(Shr(flags, 15), 1),
     opcode |-> BitAnd(Shr(flags, 12), 15),
     aa     |-> BitAnd(Shr(flags, 10), 1),
     tc     |-> BitAnd(Shr(flags, 9), 1),
     rd     |-> BitAnd(Shr(flags, 8), 1),
     ra     |-> BitAnd(Shr(flags, 7), 1),
     z      |-> BitAnd(Shr(flags, 4), 3),
     rcode  |-> BitAnd(flags, 15)]

\* the shifts and masks that split the flags word
UnpackFlags(flags) ==
    [qr     |-> BitAnd(Shr(flags, 15), 1),
     opcode |-> BitAnd(Shr(flags, 11), 15),
     aa     |-> BitAnd(Shr(flags, 10), 1),
     tc     |-> BitAnd(Shr(flags, 9), 1),
     rd     |-> BitAnd(Shr(flags, 8), 1),
     ra     |-> BitAnd(Shr(flags, 7), 1),
     z      |-> BitAnd(Shr(flags, 4), 7),
     rcode  |-> BitAnd(flags, 15)]

\* the name tables of the header; None prints as "None"
opcode_names == << "QUERY", "IQUERY", "STATUS", "None", "NOTIFY", "UPDATE" >>
rcode_names ==
    << "NOERROR", "FORMERR", "SERVFAIL", "NXDOMAIN", "NOTIMP", "REFUSED",
       "YXDOMAIN", "YXRRSET", "NXRRSET", "NOTAUTH", "NOTZONE" >>

\* the name tables of the question, indexed by the qtype and qclass arguments
qtype_names == << "None", "A", "NS", "CNAME", "SOA", "PTR", "MX", "TXT", "AAAA" >>
qclass_names == << "None", "IN", "CS", "CH", "HS" >>

\* the locals of parse_and_print_header before anything is printed
NoHeader ==
    [id |-> 0, flags |-> 0, qdcount |-> 0, ancount |-> 0, nscount |-> 0, arcount |-> 0,
     qr |-> 0, opcode |-> 0, aa |-> 0, tc |-> 0, rd |-> 0, ra |-> 0, z |-> 0, rcode |-> 0]

\* the locals of parse_and_print_header from the six fields f and the flags g
HeaderLocals(f, g) ==
    [id |-> f.id, flags |-> f.flags, qdcount |-> f.qdcount,
     ancount |-> f.ancount, nscount |-> f.nscount, arcount |-> f.arcount,
     qr |-> g.qr, opcode |-> g.opcode, aa |-> g.aa, tc |-> g.tc,
     rd |-> g.rd, ra |-> g.ra, z |-> g.z, rcode |-> g.rcode]

\* the three prints of parse_and_print_header, with the locals h; indexing a
\* name table past its end raises IndexError before anything is printed
PrintHeader(h) ==
    IF h.opcode >= Len(opcode_names) \/ h.rcode >= Len(rcode_names)
    THEN [err |-> "IndexError", hdr |-> h, lines |-> << >>]
    ELSE [err |-> "none", hdr |-> h,
          lines |-> << Line("HEADER",
                            << opcode_names[h.opcode + 1], rcode_names[h.rcode + 1] >>,
                            << >>, << h.id >>, << >>),
                       Line("flags", << "qr", "rd", "ra" >>, << >>,
                            << h.qdcount, h.ancount, h.nscount, h.arcount >>, << >>),
                       Line("authority records", << >>, << >>, << h.nscount >>, << >>) >>]

\* the flags word of a buffer of 12 bytes or more
FlagsOf(response) == U16At(response, 2)

\* a header parser that prints its heading before it unpacks the buffer
ParseHeader_heading_first(response) ==
    IF Len(response) < 12
    THEN [err |-> "struct.error", hdr |-> NoHeader,
          lines |-> << Line("HEADER", << >>, << >>, << >>, << >>) >>]
    ELSE PrintHeader(HeaderLocals(HeaderFields(response), UnpackFlags(FlagsOf(response))))

\* DNSResponse.parse_and_print_header as a function of the buffer:
\* the exception raised, the locals, the lines printed
ParseHeader(response) ==
    IF Len(response) < 12
    THEN [err |-> "struct.error", hdr |-> NoHeader, lines |-> << >>]
    ELSE PrintHeader(HeaderLocals(HeaderFields(response), UnpackFlags(FlagsOf(response))))

\* the label of `length` bytes after the length byte at offset
LabelAt(response, offset, length) ==
    Utf8Decode(Slice(response, offset + 1, offset + 1 + length))

RECURSIVE QuestionLoop(_, _, _)
\* the while loop of parse_and_print_dns_question from self.offset = offset
\* with the labels read so far in domain
QuestionLoop(response, offset, domain) ==
    IF offset >= Len(response)
    THEN [err |-> "IndexError", offset |-> offset, domain |-> domain]
    ELSE IF At(response, offset) = 0
    THEN [err |-> "none", offset |-> offset, domain |-> domain]
    ELSE IF ~LabelAt(response, offset, At(response, offset)).ok
    THEN [err |-> "UnicodeDecodeError", offset |-> offset, domain |-> domain]
    ELSE QuestionLoop(response, offset + At(response, offset) + 1,
                      domain \o LabelAt(response, offset, At(response, offset)).chars \o Dot)

\* the length of the question name without its terminator
DomainLength_without_terminator(offset) == offset - 12

\* self.domain_length = self.offset - 12 + 1 when the loop has ended
DomainLength(offset) == offset - 12 + 1

\* what parse_and_print_dns_question(qtype, qclass) does once its loop has
\* ended as r says
AfterQuestionLoop(r, qtype, qclass) ==
    IF r.err # "none"
    THEN [err |-> r.err, offset |-> r.offset, set |-> FALSE, domain |-> << >>,
          domain_length |-> 0,
          lines |-> << Line("QUESTION SECTION", << >>, << >>, << >>, << >>) >>]
    ELSE IF qclass >= Len(qclass_names) \/ qtype >= Len(qtype_names)
    THEN [err |-> "IndexError", offset |-> r.offset, set |-> TRUE, domain |-> r.domain,
          domain_length |-> 0,
          lines |-> << Line("QUESTION SECTION", << >>, << >>, << >>, << >>) >>]
    ELSE [err |-> "none", offset |-> r.offset + 5, set |-> TRUE, domain |-> r.domain,
          domain_length |-> DomainLength(r.offset),
          lines |-> << Line("QUESTION SECTION", << >>, << >>, << >>, << >>),
                       Line("question",
                            << qclass_names[qclass + 1], qtype_names[qtype + 1] >>,
                            r.domain, << >>, << >>) >>]

\* DNSResponse.parse_and_print_dns_question(qtype, qclass) from self.offset:
\* the exception, the new offset, domain and domain_length, the lines printed
ParseQuestion(response, offset, qtype, qclass) ==
    AfterQuestionLoop(QuestionLoop(response, offset, << >>), qtype, qclass)

\* a pointer branch that goes on where the call for the target ended
AfterPointer_at_target_end(inner, start, offset, labels) ==
    IF inner.err # "none"
    THEN [err |-> inner.err, name |-> << >>, offset |-> offset,
          trace |-> << start >> \o inner.trace]
    ELSE [err |-> "none", name |-> Join(labels, Dot), offset |-> inner.offset,
          trace |-> << start >> \o inner.trace]

\* what a call of read_name at `start` returns once the call it made for the
\* pointer at `offset` has returned `inner`:
\*     label, _ = self.read_name(response, pointer); offset += 2; break
\* the name read at the target is bound to `label`, which is not appended
AfterPointer(inner, start, offset, labels) ==
    IF inner.err # "none"
    THEN [err |-> inner.err, name |-> << >>, offset |-> offset,
          trace |-> << start >> \o inner.trace]
    ELSE [err |-> "none", name |-> Join(labels, Dot), offset |-> offset + 2,
          trace |-> << start >> \o inner.trace]

RECURSIVE ReadNameLoop(_, _, _, _, _)
\* the while loop of the call of read_name that began at `start`, at recursion
\* depth `depth`, now at `offset` with `labels` read.  trace lists the offsets
\* at which the call and the calls it makes began, in order.  A call deeper
\* than the interpreter allows raises RecursionError
ReadNameLoop(response, start, offset, labels, depth) ==
    IF depth > MaxDepth
    THEN [err |-> "RecursionError", name |-> << >>, offset |-> offset,
          trace |-> << start >>]
    ELSE IF offset >= Len(response)
    THEN [err |-> "IndexError", name |-> << >>, offset |-> offset, trace |-> << start >>]
    ELSE IF At(response, offset) >= 192
    THEN IF offset + 2 > Len(response)
         THEN [err |-> "struct.error", name |-> << >>, offset |-> offset,
               trace |-> << start >>]
         ELSE AfterPointer(ReadNameLoop(response,
                                        BitAnd(U16At(response, offset), 16383),
                                        BitAnd(U16At(response, offset), 16383),
                                        << >>, depth + 1),
                           start, offset, labels)
    ELSE IF At(response, offset) = 0
    THEN [err |-> "none", name |-> Join(labels, Dot), offset |-> offset + 1,
          trace |-> << start >>]
    ELSE IF ~LabelAt(response, offset, At(response, offset)).ok
    THEN [err |-> "UnicodeDecodeError", name |-> << >>, offset |-> offset,
          trace |-> << start >>]
    ELSE ReadNameLoop(response, start, offset + 1 + At(response, offset),
                      Append(labels, LabelAt(response, offset, At(response, offset)).chars),
                      depth)

\* DNSResponse.read_name(response, offset): the exception, the name and the
\* offset returned, and the offsets at which a name was read (the offset
\* given, then every pointer target)
read_name(response, offset) == ReadNameLoop(response, offset, offset, << >>, 1)

\* no call of read_name
NoName == [err |-> "none", name |-> << >>, offset |-> 0, trace |-> << >>]

\* the offset after the owner name: 2 for a byte >= 0xC0, else domain_length
SkipOwner(response, offset, domain_length) ==
    IF At(response, offset) >= 192 THEN offset + 2 ELSE offset + domain_length

\* an iteration of a record loop ends: the exception, self.offset, the line
\* printed, the read_name call made, and where the record was taken to lie
Iteration(e, rec, off, lines, rn) ==
    [err |-> e, offset |-> off, lines |-> lines, rn |-> rn,
     rec |-> [rec EXCEPT !.end = off]]

\* print(f"{self.domain} {ttl} IN <tag> <data>")
RecordLine(domain, rec, tag, data) ==
    << Line("record", << "IN", tag >>, domain, << rec.ttl >>, data) >>

\* type == 1: socket.inet_ntoa raises OSError unless given 4 bytes
ARecord(domain, rec, bytes) ==
    IF Len(bytes) # 4 THEN Iteration("OSError", rec, rec.rdata, << >>, NoName)
    ELSE Iteration("none", rec, rec.rdata + rec.rdlength,
                   RecordLine(domain, rec, "A", bytes), NoName)

\* type == 2 and type == 5: name, self.offset = self.read_name(...)
NameRecord(domain, rec, tag, name) ==
    IF name.err # "none" THEN Iteration(name.err, rec, rec.rdata, << >>, name)
    ELSE Iteration("none", rec, name.offset, RecordLine(domain, rec, tag, name.name), name)

\* type == 28: socket.inet_ntop raises ValueError unless given 16 bytes; the
\* address is printed, then read_name is called and what it returns is dropped
AAAARecord(domain, rec, bytes, name) ==
    IF Len(bytes) # 16 THEN Iteration("ValueError", rec, rec.rdata, << >>, NoName)
    ELSE Iteration(name.err, rec, rec.rdata, RecordLine(domain, rec, "AAAA", bytes), name)

\* the if/elif chain on the record type; no branch for any other type
RecordData(response, domain, rec) ==
    IF rec.type = 1
    THEN ARecord(domain, rec, Slice(response, rec.rdata, rec.rdata + rec.rdlength))
    ELSE IF rec.type = 2
    THEN NameRecord(domain, rec, "NS", read_name(response, rec.rdata))
    ELSE IF rec.type = 5
    THEN NameRecord(domain, rec, "CNAME", read_name(response, rec.rdata))
    ELSE IF rec.type = 28
    THEN AAAARecord(domain, rec, Slice(response, rec.rdata, rec.rdata + rec.rdlength),
                    read_name(response, rec.rdata))
    ELSE Iteration("none", rec, rec.rdata, << >>, NoName)

\* struct.unpack('>HHIH', response[fixed:fixed + 10]) and self.offset += 10
\* for a record that began at `start`
FixedPart(response, domain, start, fixed) ==
    IF Len(Slice(response, fixed, fixed + 10)) < 10
    THEN Iteration("struct.error",
                   [start |-> start, fixed |-> fixed, type |-> 0, ttl |-> << 0, 0 >>,
                    rdlength |-> 0, rdata |-> fixed, end |-> fixed],
                   fixed, << >>, NoName)
    ELSE RecordData(response, domain,
                    [start |-> start, fixed |-> fixed,
                     type |-> U16At(response, fixed),
                     ttl |-> U32At(response, fixed + 4),
                     rdlength |-> U16At(response, fixed + 8),
                     rdata |-> fixed + 10, end |-> fixed + 10])

\* one iteration of the record loop of parse_and_print_dns_answer,
\* parse_and_print_authority_records and parse_and_print_additional_records
\* (the three bodies are the same text) from self.offset = offset
ParseRecord(response, offset, domain_length, domain) ==
    IF offset >= Len(response)
    THEN Iteration("IndexError",
                   [start |-> offset, fixed |-> offset, type |-> 0, ttl |-> << 0, 0 >>,
                    rdlength |-> 0, rdata |-> offset, end |-> offset],
                   offset, << >>, NoName)
    ELSE FixedPart(response, domain, offset, SkipOwner(response, offset, domain_length))

\* ------------------------------------------- the decoder of src/client
\* a record of the loops of src/client/dns_response.py that began at `start`:
\* offset += 2, the 10 fixed bytes, and offset += rdlength at the end
ClientRecord(response, start) ==
    [start |-> start, fixed |-> start + 2,
     type |-> U16At(response, start + 2),
     ttl |-> U32At(response, start + 6),
     rdlength |-> U16At(response, start + 10),
     rdata |-> start + 12,
     end |-> start + 12 + U16At(response, start + 10)]

\* the record entered for an iteration whose struct.unpack of 10 bytes failed
ClientShort(start) ==
    [start |-> start, fixed |-> start + 2, type |-> 0, ttl |-> << 0, 0 >>,
     rdlength |-> 0, rdata |-> start + 2, end |-> start + 2]

\* the RDATA slice response[offset + skip:offset + rdlength] of record rec
ClientSlice(response, rec, skip) ==
    Slice(response, rec.rdata + skip, rec.rdata + rec.rdlength)

\* the if of the answer loop: an A record is printed, nothing else is
ClientAnswerData(response, domain, rec) ==
    IF rec.type # 1 THEN [err |-> "none", lines |-> << >>]
    ELSE IF Len(ClientSlice(response, rec, 0)) # 4 THEN [err |-> "OSError", lines |-> << >>]
    ELSE [err |-> "none", lines |-> RecordLine(domain, rec, "A", ClientSlice(response, rec, 0))]

\* print(f"{self.domain} {ttl} IN <tag> ...") of text decoded from RDATA bytes
ClientText(domain, rec, tag, vals, text) ==
    IF ~text.ok THEN [err |-> "UnicodeDecodeError", lines |-> << >>]
    ELSE [err |-> "none",
          lines |-> << Line("record", << "IN", tag >>, domain, << rec.ttl >> \o vals,
                            text.chars) >>]

\* the if/elif chain of the authority loop
ClientAuthorityData(response, domain, rec) ==
    IF rec.type = 1 THEN ClientAnswerData(response, domain, rec)
    ELSE IF rec.type = 2
    THEN ClientText(domain, rec, "NS", << >>, Utf8Decode(ClientSlice(response, rec, 0)))
    ELSE IF rec.type = 5
    THEN ClientText(domain, rec, "CNAME", << >>, Utf8Decode(ClientSlice(response, rec, 0)))
    ELSE IF rec.type = 15
    THEN IF Len(Slice(response, rec.rdata, rec.rdata + 2)) < 2
         THEN [err |-> "struct.error", lines |-> << >>]
         ELSE ClientText(domain, rec, "MX", << U16At(response, rec.rdata) >>,
                         Utf8Decode(ClientSlice(response, rec, 2)))
    ELSE IF rec.type = 16
    THEN ClientText(domain, rec, "TXT", << >>, Utf8Decode(ClientSlice(response, rec, 1)))
    ELSE IF rec.type = 28
    THEN IF Len(ClientSlice(response, rec, 0)) # 16
         THEN [err |-> "ValueError", lines |-> << >>]
         ELSE [err |-> "none",
               lines |-> RecordLine(domain, rec, "AAAA", ClientSlice(response, rec, 0))]
    ELSE [err |-> "none", lines |-> << >>]

\* the if/elif chain of section sec
ClientData(sec, response, domain, rec) ==
    IF sec = "answer" THEN ClientAnswerData(response, domain, rec)
    ELSE ClientAuthorityData(response, domain, rec)

\* a record loop has ended: the exception, the value of the local offset, the
\* records gone through and the lines printed
ClientLoopEnd(e, offset, rs, lines) ==
    [err |-> e, offset |-> offset, recs |-> rs, lines |-> lines]

RECURSIVE ClientLoop(_, _, _, _, _, _, _)
\* the for loop of parse_and_print_dns_answer and
\* parse_and_print_authority_records of src/client, with `left` iterations to
\* go from the local offset
ClientLoop(sec, response, domain, offset, left, rs, lines) ==
    IF left = 0 THEN ClientLoopEnd("none", offset, rs, lines)
    ELSE IF Len(Slice(response, offset + 2, offset + 12)) < 10
    THEN ClientLoopEnd("struct.error", offset + 2,
                       Append(rs, [sec |-> sec, at |-> ClientShort(offset)]), lines)
    ELSE IF ClientData(sec, response, domain, ClientRecord(response, offset)).err # "none"
    THEN ClientLoopEnd(ClientData(sec, response, domain, ClientRecord(response, offset)).err,
                       offset + 12,
                       Append(rs, [sec |-> sec,
                                   at |-> [ClientRecord(response, offset)
                                              EXCEPT !.end = offset + 12]]),
                       lines)
    ELSE ClientLoop(sec, response, domain, ClientRecord(response, offset).end, left - 1,
                    Append(rs, [sec |-> sec, at |-> ClientRecord(response, offset)]),
                    lines \o ClientData(sec, response, domain,
                                        ClientRecord(response, offset)).lines)

\* ------------------------------------------------------------- the state
VARIABLES
    q_domain,       \* DNSQuery.domain
    args,           \* the arguments of a direct call of the encoder's methods
    query,          \* the bytes create_dns_query returned
    attempts,       \* iterations of the retry loop of send_dns_query begun
    response,       \* DNSResponse.response
    domain,         \* DNSResponse.domain
    offset,         \* DNSResponse.offset, the cursor
    ancount,        \* DNSResponse.ancount
    nscount,        \* DNSResponse.nscount
    arcount,        \* DNSResponse.arcount
    domain_length,  \* DNSResponse.domain_length
    hdr,            \* the locals of parse_and_print_header
    rn,             \* the last call of read_name and what it returned
    recs,           \* where each record parsed so far was taken to lie
    remaining,      \* iterations left of the current record loop, -1 outside
    pc,             \* where the program is
    err,            \* the uncaught exception, "none" without one
    out,            \* the lines printed so far
    peer            \* the other thread of a caller that runs two, NoPeer without one

vars == << q_domain, args, query, attempts, response, domain, offset, ancount,
           nscount, arcount, domain_length, hdr, rn, recs, remaining, pc, err, out, peer >>

encoder_vars == << q_domain, args, query, attempts >>
object_vars  == << response, domain, offset, ancount, nscount, arcount, domain_length >>

\* send_dns_query(..., retries=3)
retries == 3

\* main() runs one thread
NoPeer == << >>

\* ------------------------------------------------------------- the inputs
\* characters of the enumerated domains: 'a', '.', and U+00E9 (two bytes in UTF-8)
Alphabet == { 97, 46, 233 }

ShortDomains == UNION { [1..n -> Alphabet] : n \in 0..MaxLen }

\* label lengths around the limit of 63, and names around the limit of 255
RunLens == { 61, 63, 64 }

LabelsOf(r) == Join([i \in 1..Len(r) |-> Repeat(97, r[i])], Dot)

LongDomains ==
    { LabelsOf(r) : r \in UNION { [1..n -> RunLens] : n \in 1..MaxRuns } }
    \union { Repeat(97, 256), Repeat(233, 32), Repeat(233, 63) }

facebook == << 102, 97, 99, 101, 98, 111, 111, 107 >>
com == << 99, 111, 109 >>
facebook_com == facebook \o Dot \o com

Domains == ShortDomains \union LongDomains \union { facebook_com, facebook_com \o Dot }

\* the transaction ids secrets.randbelow(65536) is taken to return
TxIds == { 0, 45927 }

QTypes == { 1, 15, 28 }
QClasses == { 1, 3 }

\* the defaults of create_dns_query_header and create_dns_query_question
DefaultArgs ==
    [qr |-> 0, opcode |-> 0, aa |-> 0, tc |-> 0, rd |-> 1, ra |-> 0, z |-> 0, rcode |-> 0,
     qdcount |-> 1, ancount |-> 0, nscount |-> 0, arcount |-> 0, qtype |-> 1, qclass |-> 1]

\* ------------------------------------------------------- the main program
\* DNSResponse.__init__
NewResponse(r) ==
    /\ response' = r
    /\ domain' = << >>
    /\ offset' = 0
    /\ ancount' = 0
    /\ nscount' = 0
    /\ arcount' = 0
    /\ domain_length' = 0

\* an uncaught exception e ends the program
Raise(e) == pc' = "failed" /\ err' = e

\* header + question; an exception in create_dns_query_question is not caught
Returned(header, question) ==
    IF question.err # "none"
    THEN Raise(question.err) /\ query' = query
    ELSE query' = header \o question.bytes /\ pc' = "send" /\ err' = err

\* DNSQuery.create_dns_query, called by main: both methods with their defaults
create_dns_query ==
    /\ pc = "main"
    /\ \E id \in TxIds :
         Returned(create_dns_query_header(id, 0, 0, 0, 0, 1, 0, 0, 0, 1, 0, 0, 0),
                  create_dns_query_question(q_domain, 1, 1))
    /\ UNCHANGED << q_domain, args, attempts, object_vars, hdr, rn, recs, remaining, out,
                    peer >>

\* ------------------------------------------------- what the resolver sends
\* most records in a response built from the record kinds below
MaxRecs == 2

U32BE(n) == U16BE(n \div 65536) \o U16BE(n % 65536)

\* a compression pointer to offset off
Ptr(off) == << 192 + (off \div 256), off % 256 >>

\* a resource record on the wire
RR(owner, type, ttl, rdata) ==
    owner \o U16BE(type) \o U16BE(1) \o U32BE(ttl) \o U16BE(Len(rdata)) \o rdata

\* a response on the wire: flags 0x8180 (response, RD, RA), one question
Msg(id, an, ns, ar, body) ==
    U16BE(id) \o << 129, 128 >> \o U16BE(1) \o U16BE(an) \o U16BE(ns) \o U16BE(ar) \o body

\* the two responses recorded in main() of src/dns_client.py
Literal ==
    << 179, 103, 129, 128, 0, 1, 0, 1, 0, 0, 0, 0, 8, 102, 97, 99, 101, 98, 111,
       111, 107, 3, 99, 111, 109, 0, 0, 1, 0, 1, 8, 102, 97, 99, 101, 98, 111, 111,
       107, 3, 99, 111, 109, 0, 0, 1, 0, 1, 0, 0, 0, 15, 0, 4, 31, 13, 80, 36 >>
LiteralCompressed ==
    << 112, 95, 129, 128, 0, 1, 0, 1, 0, 0, 0, 0, 8, 102, 97, 99, 101, 98, 111,
       111, 107, 3, 99, 111, 109, 0, 0, 1, 0, 1, 192, 12, 0, 1, 0, 1, 0, 0, 0, 60,
       0, 4, 31, 13, 80, 36 >>

\* every truncation of the first one
Truncated == { SubSeq(Literal, 1, n) : n \in 0..Len(Literal) }

\* the question facebook.com A IN: the name is at offset 12, records start at 30
QFacebook == << 8 >> \o facebook \o << 3 >> \o com \o << 0, 0, 1, 0, 1 >>
RecordsAt == 12 + Len(QFacebook)

\* owner names: a pointer to the question name, the name itself, another name
Owners == { Ptr(12), << 8 >> \o facebook \o << 3 >> \o com \o << 0 >>,
            << 2, 110, 115, 0 >> }

RRTypes == { 1, 2, 5, 15, 16, 28, 99 }

\* RDATA for a record whose RDATA starts at offset `at`
RDatas(at) ==
    { << 31, 13, 80, 36 >>,                       \* an IPv4 address
      << 31, 13, 80 >>,                           \* one byte short of one
      Repeat(1, 16),                              \* an IPv6 address
      Ptr(12),                                    \* a pointer to the question name
      << 2, 110, 115 >> \o Ptr(12),               \* ns + a pointer to it
      << 2, 110, 115 >> \o << 3 >> \o com \o << 0 >>,   \* ns.com, uncompressed
      Ptr(at + 2) \o Ptr(12),                     \* a pointer to a pointer
      Ptr(at),                                    \* a pointer to itself
      Ptr(at + 2) \o Ptr(at),                     \* two pointers in a cycle
      << 0, 10 >> \o Ptr(12),                     \* a preference and a name
      << 2, 104, 105 >> }                         \* a text segment

\* responses with one answer record
SingleRecord ==
    UNION { { Msg(1, 1, 0, 0, QFacebook \o RR(o, t, 15, d)) :
                t \in RRTypes, d \in RDatas(RecordsAt + Len(o) + 10) } : o \in Owners }

\* record kinds for responses with records in several sections
RecordKinds ==
    { RR(Ptr(12), 1, 60, << 31, 13, 80, 36 >>),
      RR(Ptr(12), 2, 60, << 2, 110, 115 >> \o Ptr(12)),
      RR(Ptr(12), 5, 60, << 3, 119, 119, 119 >> \o Ptr(12)),
      RR(Ptr(12), 28, 60, Repeat(0, 16)),
      RR(Ptr(12), 99, 60, << 1, 2, 3 >>) }

\* responses with an, ns and ar records, at most MaxRecs in all
Sectioned ==
    UNION { { Msg(1, c[1], c[2], c[3], QFacebook \o Concat(rs)) :
                rs \in [1..(c[1] + c[2] + c[3]) -> RecordKinds] } :
            c \in { x \in (0..MaxRecs) \X (0..MaxRecs) \X (0..MaxRecs) :
                      x[1] + x[2] + x[3] <= MaxRecs } }

\* a resource record on the wire whose RDLENGTH field holds n, whatever the
\* RDATA that follows
RRDeclared(owner, type, ttl, n, rdata) ==
    owner \o U16BE(type) \o U16BE(1) \o U32BE(ttl) \o U16BE(n) \o rdata

\* responses that end in one answer record whose RDLENGTH declares 1 or 3
\* bytes more than the datagram holds
Overdeclared ==
    { Msg(1, 1, 0, 0, QFacebook \o RRDeclared(Ptr(12), t, 15, Len(d) + x, d)) :
        t \in RRTypes, x \in { 1, 3 },
        d \in { << 31, 13, 80, 36 >>, Repeat(0, 16), Ptr(12), << 2, 104, 105 >> } }

\* a question whose name is a pointer to itself, at offset 12
SelfPointerQuestion == Msg(1, 0, 0, 0, Ptr(12) \o << 0, 1, 0, 1 >>)

\* what recvfrom may return to a client that sent `q`: the query echoed, or
\* any of the responses above
Responses(q) ==
    { q, Literal, LiteralCompressed, SelfPointerQuestion }
    \union Truncated \union SingleRecord \union Sectioned \union Overdeclared

\* --------------------------------------------------------- send_dns_query
\* sock.sendto(query, ...) in an iteration of the retry loop
sendto ==
    /\ pc = "send"
    /\ attempts < retries
    /\ attempts' = attempts + 1
    /\ pc' = "recv"
    /\ UNCHANGED << q_domain, args, query, object_vars, hdr, rn, recs, remaining, err, out,
                    peer >>

\* sock.recvfrom(4096) returns: send_dns_query returns the response and main
\* constructs DNSResponse(response)
recvfrom ==
    /\ pc = "recv"
    /\ \E r \in Responses(query) : NewResponse(r)
    /\ pc' = "header"
    /\ UNCHANGED << encoder_vars, hdr, rn, recs, remaining, err, out, peer >>

\* a timeout that ends the process at once, without another attempt
timeout_gives_up_at_once ==
    /\ pc = "recv"
    /\ out' = out \o << Line("timed out", << >>, << >>, << >>, << >>),
                        Line("no servers could be reached", << >>, << >>, << >>, << >>) >>
    /\ pc' = "exit"
    /\ UNCHANGED << encoder_vars, object_vars, hdr, rn, recs, remaining, err, peer >>

\* sock.recvfrom raises socket.timeout: the loop goes on, and after the last
\* iteration the program prints and exits with status 1
timeout ==
    /\ pc = "recv"
    /\ IF attempts < retries
       THEN /\ out' = Append(out, Line("timed out", << >>, << >>, << >>, << >>))
            /\ pc' = "send"
       ELSE /\ out' = out \o << Line("timed out", << >>, << >>, << >>, << >>),
                                Line("no servers could be reached", << >>, << >>,
                                     << >>, << >>) >>
            /\ pc' = "exit"
    /\ UNCHANGED << encoder_vars, object_vars, hdr, rn, recs, remaining, err, peer >>

\* ------------------------------------------- parse_and_print_dns_response
\* DNSResponse.parse_and_print_header, r being what ParseHeader computes
HeaderStep(r) ==
    /\ hdr' = r.hdr
    /\ out' = out \o r.lines
    /\ IF r.err # "none"
       THEN /\ Raise(r.err)
            /\ UNCHANGED << ancount, nscount, arcount, offset >>
       ELSE /\ ancount' = r.hdr.ancount
            /\ nscount' = r.hdr.nscount
            /\ arcount' = r.hdr.arcount
            /\ offset' = 12
            /\ pc' = "question"
            /\ err' = err

\* a header parse whose self.offset = 12 lands in an attribute of the class,
\* which every DNSResponse object shares
parse_and_print_header_shared_cursor ==
    /\ pc = "header"
    /\ HeaderStep(ParseHeader(response))
    /\ peer' = IF peer = NoPeer \/ ParseHeader(response).err # "none" THEN peer
               ELSE [peer EXCEPT !.offset = 12]
    /\ UNCHANGED << encoder_vars, response, domain, domain_length, rn, recs, remaining >>

\* DNSResponse.parse_and_print_header
parse_and_print_header ==
    /\ pc = "header"
    /\ HeaderStep(ParseHeader(response))
    /\ UNCHANGED << encoder_vars, response, domain, domain_length, rn, recs, remaining,
                    peer >>

\* DNSResponse.parse_and_print_dns_question, r being what ParseQuestion computes
QuestionStep(r) ==
    /\ offset' = r.offset
    /\ out' = out \o r.lines
    /\ domain' = IF r.set THEN r.domain ELSE domain
    /\ IF r.err # "none"
       THEN Raise(r.err) /\ domain_length' = domain_length
       ELSE domain_length' = r.domain_length /\ pc' = "answer" /\ err' = err

\* DNSResponse.parse_and_print_dns_question(), with its default arguments
parse_and_print_dns_question ==
    /\ pc = "question"
    /\ QuestionStep(ParseQuestion(response, offset, 1, 1))
    /\ UNCHANGED << encoder_vars, response, ancount, nscount, arcount, hdr, rn, recs,
                    remaining, peer >>

\* the section parse_and_print_dns_response goes to when `sec` is done
After(sec) ==
    IF sec = "answer" /\ nscount > 0 THEN "authority"
    ELSE IF sec # "additional" /\ arcount > 0 THEN "additional"
    ELSE "done"

\* the last four prints of parse_and_print_dns_response
Footer ==
    << Line("Query time", << >>, << >>, << >>, << >>),
       Line("SERVER", << >>, << >>, << >>, << >>),
       Line("WHEN", << >>, << >>, << >>, << >>),
       Line("MSG SIZE rcvd", << >>, << >>, << Len(response) >>, << >>) >>

\* the loop of a section has `left` iterations to go: stay, or return to
\* parse_and_print_dns_response, which goes on to the next section or ends
Loop(sec, left, lines) ==
    IF left > 0
    THEN remaining' = left /\ pc' = sec /\ out' = out \o lines
    ELSE /\ remaining' = -1
         /\ pc' = After(sec)
         /\ out' = out \o lines \o (IF After(sec) = "done" THEN Footer ELSE << >>)

\* one iteration of the loop of section `sec`, r being what ParseRecord computes
RecordStep(sec, r) ==
    /\ offset' = r.offset
    /\ rn' = r.rn
    /\ recs' = Append(recs, [sec |-> sec, at |-> r.rec])
    /\ IF r.err # "none"
       THEN Raise(r.err) /\ out' = out \o r.lines /\ remaining' = remaining
       ELSE Loop(sec, remaining - 1, r.lines) /\ err' = err

\* a step of the section function `sec`, whose loop runs `count` times:
\* its entry (the heading is printed), or one iteration of its loop
Section(sec, heading, count) ==
    /\ pc = sec
    /\ IF remaining = -1
       THEN /\ Loop(sec, count, << Line(heading, << >>, << >>, << >>, << >>) >>)
            /\ UNCHANGED << offset, rn, recs, err >>
       ELSE RecordStep(sec, ParseRecord(response, offset, domain_length, domain))
    /\ UNCHANGED << encoder_vars, response, domain, ancount, nscount, arcount,
                    domain_length, hdr, peer >>

\* DNSResponse.parse_and_print_dns_answer
parse_and_print_dns_answer == Section("answer", "ANSWER SECTION", ancount)

\* DNSResponse.parse_and_print_authority_records
parse_and_print_authority_records == Section("authority", "AUTHORITY SECTION", nscount)

\* DNSResponse.parse_and_print_additional_records
parse_and_print_additional_records == Section("additional", "ADDITIONAL SECTION", arcount)

\* --------------------------------------------------------- the main program
\* the domains given on the command line
MainDomains == { facebook_com, << 97 >>, << 97, 46, 97, 46 >>, << 233, 46, 97 >> }

InitDecoder ==
    /\ response = << >>
    /\ domain = << >>
    /\ offset = 0
    /\ ancount = 0
    /\ nscount = 0
    /\ arcount = 0
    /\ domain_length = 0
    /\ hdr = NoHeader
    /\ rn = NoName
    /\ recs = << >>
    /\ remaining = -1
    /\ err = "none"
    /\ out = << >>

\* main() up to DNSQuery(domain)
Init ==
    /\ q_domain \in MainDomains
    /\ args = DefaultArgs
    /\ query = << >>
    /\ attempts = 0
    /\ pc = "main"
    /\ InitDecoder
    /\ peer = NoPeer

Next ==
    \/ create_dns_query
    \/ sendto
    \/ recvfrom
    \/ timeout
    \/ parse_and_print_header
    \/ parse_and_print_dns_question
    \/ parse_and_print_dns_answer
    \/ parse_and_print_authority_records
    \/ parse_and_print_additional_records

Spec == Init /\ [][Next]_vars

\* -------------------------------------------- the methods called directly
\* values of a 16-bit count: the least, the greatest, one with two bytes set
CountSamples == { 0, 513, 65535 }

\* every combination of in-range header fields, with the default counts
FlagArgs ==
    { [DefaultArgs EXCEPT !.qr = b[1], !.aa = b[2], !.tc = b[3], !.rd = b[4],
                          !.ra = b[5], !.opcode = o, !.rcode = r, !.z = z] :
        b \in [1..5 -> 0..1], o \in 0..15, r \in 0..15, z \in 0..7 }

\* every combination of sampled counts, with the default flags
CountArgs ==
    { [DefaultArgs EXCEPT !.qdcount = c[1], !.ancount = c[2], !.nscount = c[3],
                          !.arcount = c[4]] : c \in [1..4 -> CountSamples] }

\* every sampled qtype and qclass, with the default header
QuestionArgs ==
    { [DefaultArgs EXCEPT !.qtype = t, !.qclass = c] : t \in QTypes, c \in QClasses }

\* a caller that builds a message from create_dns_query_header(...) and
\* create_dns_query_question(qtype, qclass) with arguments of its own, and
\* gives the bytes to DNSResponse
Built(header, question) ==
    IF question.err # "none"
    THEN Raise(question.err) /\ query' = query /\ UNCHANGED object_vars
    ELSE query' = header \o question.bytes
         /\ NewResponse(header \o question.bytes)
         /\ pc' = "header" /\ err' = err

encode_with_arguments ==
    /\ pc = "api"
    /\ \E id \in TxIds :
         Built(create_dns_query_header(id, args.qr, args.opcode, args.aa, args.tc,
                                       args.rd, args.ra, args.z, args.rcode,
                                       args.qdcount, args.ancount, args.nscount,
                                       args.arcount),
               create_dns_query_question(q_domain, args.qtype, args.qclass))
    /\ UNCHANGED << q_domain, args, attempts, hdr, rn, recs, remaining, out, peer >>

InitApi ==
    /\ \/ q_domain \in Domains /\ args \in QuestionArgs
       \/ q_domain = << 97 >> /\ args \in FlagArgs \union CountArgs
    /\ query = << >>
    /\ attempts = 0
    /\ pc = "api"
    /\ InitDecoder
    /\ peer = NoPeer

NextApi ==
    \/ encode_with_arguments
    \/ parse_and_print_header
    \/ parse_and_print_dns_question

SpecApi == InitApi /\ [][NextApi]_vars

\* ------------------------------------------- a caller that runs two threads
\* what belongs to the running thread: the bytes its DNSQuery returned, its
\* DNSResponse object, the locals and the position of its calls, and the
\* lines it has printed
Context ==
    [query |-> query, attempts |-> attempts, response |-> response, domain |-> domain,
     offset |-> offset, ancount |-> ancount, nscount |-> nscount, arcount |-> arcount,
     domain_length |-> domain_length, hdr |-> hdr, rn |-> rn, recs |-> recs,
     remaining |-> remaining, pc |-> pc, err |-> err, out |-> out]

\* the scheduler gives the processor to the other thread: the running thread
\* is set aside as it is, and the other one goes on from where it was
switch ==
    /\ peer # NoPeer
    /\ peer' = Context
    /\ query' = peer.query
    /\ attempts' = peer.attempts
    /\ response' = peer.response
    /\ domain' = peer.domain
    /\ offset' = peer.offset
    /\ ancount' = peer.ancount
    /\ nscount' = peer.nscount
    /\ arcount' = peer.arcount
    /\ domain_length' = peer.domain_length
    /\ hdr' = peer.hdr
    /\ rn' = peer.rn
    /\ recs' = peer.recs
    /\ remaining' = peer.remaining
    /\ pc' = peer.pc
    /\ err' = peer.err
    /\ out' = peer.out
    /\ UNCHANGED << q_domain, args >>

\* the other thread has constructed its DNSResponse
Constructed(c) == c.pc \notin { "main", "send" }

\* DNSResponse(r) in the running thread: on the bytes the other thread's
\* object was given when that one exists, else on any response
DNSResponse_on_same_bytes ==
    /\ pc = "send"
    /\ peer # NoPeer
    /\ \E r \in (IF Constructed(peer) THEN { peer.response } ELSE Responses(query)) :
         NewResponse(r)
    /\ pc' = "header"
    /\ UNCHANGED << encoder_vars, hdr, rn, recs, remaining, err, out, peer >>

\* the domain the two threads are run for: the one of the recorded responses
PairDomains == { facebook_com }

\* two threads, each about to make a DNSQuery for the same domain
InitPair ==
    /\ q_domain \in PairDomains
    /\ args = DefaultArgs
    /\ query = << >>
    /\ attempts = 0
    /\ pc = "main"
    /\ InitDecoder
    /\ peer = Context

NextPair ==
    \/ create_dns_query
    \/ DNSResponse_on_same_bytes
    \/ parse_and_print_header
    \/ parse_and_print_dns_question
    \/ parse_and_print_dns_answer
    \/ parse_and_print_authority_records
    \/ parse_and_print_additional_records
    \/ switch

SpecPair == InitPair /\ [][NextPair]_vars

\* ----------------------------------------- the program of src/client
\* (its DNSQuery is the one modelled above; its DNSResponse keeps nscount in
\* authority_records, never assigns additional_records, and has no
\* domain_length; its section functions take the offset as an argument)

\* send_dns_query of src/client/dns_client.py: one sendto, one recvfrom without
\* a timeout; main constructs DNSResponse(response)
client_send_dns_query ==
    /\ pc = "send"
    /\ \E r \in Responses(query) : NewResponse(r)
    /\ out' = Append(out, Line("Sending DNS query", << >>, << >>, << >>, << >>))
    /\ pc' = "client header"
    /\ UNCHANGED << encoder_vars, hdr, rn, recs, remaining, err, peer >>

\* parse_and_print_header of src/client: the same unpacking and prints;
\* self.ancount and self.authority_records are assigned, arcount is dropped
ClientHeaderStep(r) ==
    /\ hdr' = r.hdr
    /\ out' = out \o r.lines
    /\ IF r.err # "none"
       THEN /\ Raise(r.err)
            /\ UNCHANGED << ancount, nscount, offset >>
       ELSE /\ ancount' = r.hdr.ancount
            /\ nscount' = r.hdr.nscount
            /\ offset' = 12
            /\ pc' = "client question"
            /\ err' = err

client_parse_and_print_header ==
    /\ pc = "client header"
    /\ ClientHeaderStep(ParseHeader(response))
    /\ UNCHANGED << encoder_vars, response, domain, arcount, domain_length, rn, recs,
                    remaining, peer >>

\* self.offset = self.parse_and_print_dns_question(12): the loop works on the
\* argument, and self.offset is assigned when the function returns
ClientQuestionStep(r) ==
    /\ out' = out \o r.lines
    /\ domain' = IF r.set THEN r.domain ELSE domain
    /\ IF r.err # "none"
       THEN Raise(r.err) /\ offset' = offset
       ELSE offset' = r.offset /\ pc' = "client answer" /\ err' = err

client_parse_and_print_dns_question ==
    /\ pc = "client question"
    /\ ClientQuestionStep(ParseQuestion(response, 12, 1, 1))
    /\ UNCHANGED << encoder_vars, response, ancount, nscount, arcount, domain_length, hdr,
                    rn, recs, remaining, peer >>

\* where parse_and_print_dns_response of src/client goes after section sec
ClientAfter(sec) ==
    IF sec = "answer" /\ nscount > 0 THEN "client authority"
    ELSE IF arcount > 0 THEN "client additional"
    ELSE "done"

\* a section function of src/client has run as r says, after the headings
\* given were printed; it leaves self.offset alone
ClientSectionStep(sec, headings, r) ==
    /\ recs' = recs \o r.recs
    /\ IF r.err # "none"
       THEN Raise(r.err) /\ out' = out \o headings \o r.lines
       ELSE /\ pc' = ClientAfter(sec)
            /\ err' = err
            /\ out' = out \o headings \o r.lines
                          \o (IF ClientAfter(sec) = "done" THEN Footer ELSE << >>)
    /\ UNCHANGED << encoder_vars, object_vars, hdr, rn, remaining, peer >>

\* self.parse_and_print_dns_answer(self.offset): the loop runs self.ancount times
client_parse_and_print_dns_answer ==
    /\ pc = "client answer"
    /\ ClientSectionStep("answer",
                         << Line("ANSWER SECTION", << >>, << >>, << >>, << >>) >>,
                         ClientLoop("answer", response, domain, offset, ancount,
                                    << >>, << >>))

\* parse_and_print_authority_records(self, offset, nscount=0)
client_nscount_default == 0

\* print("\n;; AUTHORITY SECTION: ") and
\* self.parse_and_print_authority_records(self.offset): nscount is not given
client_parse_and_print_authority_records ==
    /\ pc = "client authority"
    /\ ClientSectionStep("authority",
                         << Line("AUTHORITY SECTION", << >>, << >>, << >>, << >>),
                            Line("AUTHORITY SECTION", << >>, << >>, << >>, << >>) >>,
                         ClientLoop("authority", response, domain, offset,
                                    client_nscount_default, << >>, << >>))

NextClient ==
    \/ create_dns_query
    \/ client_send_dns_query
    \/ client_parse_and_print_header
    \/ client_parse_and_print_dns_question
    \/ client_parse_and_print_dns_answer
    \/ client_parse_and_print_authority_records

\* main() of src/client/dns_client.py begins as the one of src/dns_client.py
SpecClient == Init /\ [][NextClient]_vars

\* --------------------------------------------------------- the properties
\* the labels of domain d as create_dns_query_question splits it
Labels(d) == Split(d)

\* the bytes a name with the labels of d takes on the wire when every label
\* is prefixed with one length byte: the labels' bytes, one byte each, a
\* terminator
NameBytes(d) ==
    Len(Concat([i \in 1..Len(Labels(d)) |-> << 0 >> \o Utf8Encode(Labels(d)[i])])) + 1

\* every label of d is at most 63 bytes and the encoded name at most 255
WithinLimits(d) ==
    /\ \A i \in 1..Len(Labels(d)) : Len(Utf8Encode(Labels(d)[i])) <= 63
    /\ NameBytes(d) <= 255

IsAscii(d) == \A i \in 1..Len(d) : d[i] < 128

\* d has an empty label other than the single one a trailing dot leaves
HasEmptyLabel(d) ==
    \E i \in 1..Len(Labels(d)) :
        Labels(d)[i] = << >> /\ ~(i = Len(Labels(d)) /\ i > 1)

\* d without its trailing dot
StripDot(d) == IF d # << >> /\ d[Len(d)] = 46 THEN SubSeq(d, 1, Len(d) - 1) ELSE d

\* the encoder has returned or raised
Encoded == pc = "header" \/ (pc = "failed" /\ response = << >>)

\* parse_and_print_dns_question has returned or raised
QuestionDecoded == pc = "answer" \/ (pc = "failed" /\ response # << >> /\ out # << >>)

\* the question section of the query built
QuestionOf(q) == SubSeq(q, 13, Len(q))

\* the symbolic names of the question types and classes (section 3 of the spec)
TypeName(t) ==
    IF t = 1 THEN "A" ELSE IF t = 2 THEN "NS" ELSE IF t = 5 THEN "CNAME"
    ELSE IF t = 6 THEN "SOA" ELSE IF t = 12 THEN "PTR" ELSE IF t = 15 THEN "MX"
    ELSE IF t = 16 THEN "TXT" ELSE IF t = 28 THEN "AAAA" ELSE "?"
ClassName(c) ==
    IF c = 1 THEN "IN" ELSE IF c = 2 THEN "CS" ELSE IF c = 3 THEN "CH"
    ELSE IF c = 4 THEN "HS" ELSE "?"

\* the lines of kind k printed so far
LinesOf(k) == SelectSeq(out, LAMBDA l : l.line = k)

RECURSIVE FirstZero(_, _)
\* the offset of the first zero length byte of the name at off, -1 without one
FirstZero(buf, off) ==
    IF off >= Len(buf) THEN -1
    ELSE IF At(buf, off) = 0 THEN off
    ELSE FirstZero(buf, off + 1 + At(buf, off))

\* C1: every query create_dns_query returns is a 2-byte transaction id, then
\* the flags word 0x0100 (QR, OPCODE, AA, TC, RA, Z, RCODE all 0 and RD 1),
\* then QDCOUNT 1 and ANCOUNT, NSCOUNT, ARCOUNT 0, big-endian: 12 bytes, after
\* which the question section begins.
C1_QueryHeader ==
    query # << >> =>
        /\ Len(query) >= 12
        /\ U16At(query, 0) \in TxIds
        /\ SubSeq(query, 3, 4) = << 1, 0 >>
        /\ UnpackFlags(U16At(query, 2)) =
               [qr |-> 0, opcode |-> 0, aa |-> 0, tc |-> 0, rd |-> 1, ra |-> 0,
                z |-> 0, rcode |-> 0]
        /\ SubSeq(query, 5, 12) = << 0, 1, 0, 0, 0, 0, 0, 0 >>
        /\ QuestionOf(query) = create_dns_query_question(q_domain, 1, 1).bytes

\* C1 witness: main has built the query for facebook.com and is about to send it
C1_Witness == pc = "send" /\ q_domain = facebook_com /\ Len(query) = 30

\* C2: in every question section built, each label is one length byte and the
\* label's UTF-8 bytes, the length byte being the number of those bytes; then
\* one zero byte, then qtype and qclass as big-endian 16-bit integers.
C2_LengthByteCountsBytes ==
    (Encoded /\ query # << >>) =>
        QuestionOf(query) =
            Concat([i \in 1..Len(Labels(q_domain)) |->
                       << Len(Utf8Encode(Labels(q_domain)[i])) >>
                       \o Utf8Encode(Labels(q_domain)[i])])
            \o << 0 >> \o U16BE(args.qtype) \o U16BE(args.qclass)

\* C3: encoding succeeds for a domain whose labels are at most 63 bytes and
\* whose encoded name is at most 255 bytes, and fails with InvalidDomain,
\* returning no buffer, for any other.
C3_LengthLimits ==
    Encoded =>
        IF WithinLimits(q_domain)
        THEN err = "none" /\ query # << >>
        ELSE err = "InvalidDomain" /\ query = << >>

\* C4: no empty label becomes a zero length byte inside the QNAME: with a
\* trailing dot the question is the one built without it, any other empty
\* label fails with InvalidDomain, and the only zero length byte of a QNAME
\* built is its terminator.  (Stated for ASCII domains within the length
\* limits, where a length byte is the label's byte count.)
C4_NoEmptyLabel ==
    (Encoded /\ IsAscii(q_domain) /\ WithinLimits(q_domain)) =>
        IF HasEmptyLabel(q_domain)
        THEN err = "InvalidDomain" /\ query = << >>
        ELSE /\ query # << >>
             /\ FirstZero(query, 12) + 5 = Len(query)
             /\ QuestionOf(query) =
                    create_dns_query_question(StripDot(q_domain), args.qtype,
                                              args.qclass).bytes

\* C5: decoding the question section of an encoded query gives back the
\* domain with a trailing dot, the qtype and the qclass encoded, and leaves the
\* cursor at 12 + the encoded name's length + 4.  (Stated for ASCII domains
\* with no empty label and no trailing dot, within the length limits.)
C5_QuestionRoundTrip ==
    (/\ QuestionDecoded
     /\ args \in QuestionArgs
     /\ IsAscii(q_domain) /\ WithinLimits(q_domain)
     /\ \A i \in 1..Len(Labels(q_domain)) : Labels(q_domain)[i] # << >>) =>
        /\ pc = "answer"
        /\ domain = q_domain \o Dot
        /\ offset = 12 + NameBytes(q_domain) + 4
        /\ offset = Len(response)
        /\ Len(LinesOf("question")) = 1
        /\ LinesOf("question")[1].name = q_domain \o Dot
        /\ LinesOf("question")[1].tags = << ClassName(args.qclass), TypeName(args.qtype) >>

\* parse_and_print_header has computed its locals from a buffer of 12 bytes or more
HeaderUnpacked ==
    \/ pc \in { "question", "answer" }
    \/ pc = "failed" /\ response # << >> /\ Len(response) >= 12

\* C6: packing in-range header fields with the encoder's two-byte layout and
\* splitting the 16-bit flags word with the decoder's shifts and masks gives
\* back every field; the id and the four counts come back unchanged.
C6_HeaderRoundTrip ==
    HeaderUnpacked =>
        /\ hdr.qr = args.qr /\ hdr.opcode = args.opcode /\ hdr.aa = args.aa
        /\ hdr.tc = args.tc /\ hdr.rd = args.rd /\ hdr.ra = args.ra
        /\ hdr.z = args.z /\ hdr.rcode = args.rcode
        /\ hdr.qdcount = args.qdcount /\ hdr.ancount = args.ancount
        /\ hdr.nscount = args.nscount /\ hdr.arcount = args.arcount
        /\ hdr.id \in TxIds /\ U16BE(hdr.id) = SubSeq(query, 1, 2)

\* C6 witness: a header with every field at its greatest value has been unpacked
C6_Witness ==
    /\ HeaderUnpacked
    /\ args.qr = 1 /\ args.opcode = 15 /\ args.aa = 1 /\ args.tc = 1 /\ args.rd = 1
    /\ args.ra = 1 /\ args.z = 7 /\ args.rcode = 15
    /\ hdr.flags = 65535 /\ hdr.id = 45927

\* the decoder has been given a response and parse_and_print_header is over
HeaderOver == query # << >> /\ pc \notin { "main", "send", "recv", "exit", "header" }

\* C7: a response of fewer than 12 bytes makes decoding fail in
\* parse_and_print_header (struct.error from struct.unpack, this code's
\* truncation failure) before any field is stored and before anything of the
\* response is printed, and no byte is indexed.
C7_ShortBufferFails ==
    (HeaderOver /\ Len(response) < 12) =>
        /\ pc = "failed"
        /\ err = "struct.error"
        /\ hdr = NoHeader
        /\ offset = 0 /\ ancount = 0 /\ nscount = 0 /\ arcount = 0
        /\ domain = << >> /\ recs = << >> /\ rn = NoName
        /\ \A i \in 1..Len(out) : out[i].line = "timed out"

\* C7 witness: decoding has failed on a response of 11 bytes
C7_Witness == pc = "failed" /\ Len(response) = 11 /\ query # << >>

\* facebook.com on the wire, as the question names it at offset 12
FacebookWire == << 8 >> \o facebook \o << 3 >> \o com \o << 0 >>

\* name contains t
Contains(name, t) ==
    \E k \in 0..(Len(name) - Len(t)) : SubSeq(name, k + 1, k + Len(t)) = t

\* C8: when the name read_name reads ends in a pointer to offset 12, where
\* facebook.com is encoded uncompressed, the name returned holds facebook.com
\* (after the labels that preceded the pointer, if any).
C8_PointerResolved ==
    (/\ rn.err = "none"
     /\ Len(rn.trace) >= 2
     /\ rn.trace[Len(rn.trace)] = 12
     /\ Slice(response, 12, 12 + Len(FacebookWire)) = FacebookWire) =>
        Contains(rn.name, facebook_com)

\* C9: a name read never comes back to an offset it has already read a name
\* at: a pointer cycle is rejected (CompressionLoop) when an offset repeats,
\* and the reader does not recurse until the interpreter stops it.
C9_CompressionLoopRejected ==
    /\ \A i, j \in 1..Len(rn.trace) : i # j => rn.trace[i] # rn.trace[j]
    /\ err # "RecursionError"

\* C10: decoding the 58-byte response recorded in main() never fails, and once
\* done it has printed one question (facebook.com., IN, A) and one record
\* (facebook.com., IN, A, TTL 15, 31.13.80.36), with the cursor at the end of
\* the buffer.
C10_EndToEnd ==
    response = Literal =>
        /\ pc # "failed"
        /\ pc = "done" =>
              /\ offset = 58 /\ offset = Len(response)
              /\ Len(LinesOf("question")) = 1
              /\ LinesOf("question")[1].name = facebook_com \o Dot
              /\ LinesOf("question")[1].tags = << "IN", "A" >>
              /\ Len(LinesOf("record")) = 1
              /\ LinesOf("record")[1] =
                     Line("record", << "IN", "A" >>, facebook_com \o Dot, << << 0, 15 >> >>,
                          << 31, 13, 80, 36 >>)
              /\ hdr.qdcount = 1 /\ hdr.ancount = 1
              /\ Len(recs) = 1 /\ recs[1].sec = "answer"

\* C10 witness: the decoding of that response is done
C10_Witness == response = Literal /\ pc = "done"

\* what a header code c is shown as: its name in the table when it has one,
\* else its number
CodeText(names, c) ==
    IF c < Len(names) /\ names[c + 1] # "None" THEN names[c + 1] ELSE ToString(c)

\* C11: whatever OPCODE (0..15) and RCODE (0..15) the flags of a response
\* hold, parse_and_print_header completes: it prints the header line, showing
\* a code without a name by its number, and returns with the cursor at 12.
C11_UnknownCodesNotFatal ==
    HeaderUnpacked =>
        /\ ~(pc = "failed" /\ out = << >>)
        /\ Len(LinesOf("HEADER")) = 1
        /\ LinesOf("HEADER")[1].tags =
               << CodeText(opcode_names, hdr.opcode), CodeText(rcode_names, hdr.rcode) >>
        /\ pc = "question" => offset = 12

\* the 10 fixed bytes of record r were unpacked
FixedRead(r) == r.rdata = r.fixed + 10

\* the i-th record iteration ended without an exception
Accepted(i) == ~(i = Len(recs) /\ pc = "failed")

\* the record types the record loops are to interpret (section 4 of the spec)
KnownTypes == { 1, 2, 5, 15, 16, 28 }

\* C12: a record of a type other than A, NS, CNAME, MX, TXT, AAAA whose RDATA
\* lies within the buffer is passed over without error as RDLENGTH opaque
\* bytes: the cursor ends RDLENGTH bytes after the RDATA start, and that is
\* where the next record is parsed.
C12_OpaqueRecordSkipped ==
    \A i \in 1..Len(recs) :
        (/\ FixedRead(recs[i].at)
         /\ recs[i].at.type \notin KnownTypes
         /\ recs[i].at.rdata + recs[i].at.rdlength <= Len(response)) =>
            /\ Accepted(i)
            /\ recs[i].at.end = recs[i].at.rdata + recs[i].at.rdlength
            /\ i < Len(recs) =>
                   recs[i + 1].at.start = recs[i].at.rdata + recs[i].at.rdlength

\* the lines the decoder has printed (the transport prints "timed out")
DecoderLines == SelectSeq(out, LAMBDA l : l.line # "timed out")

\* C13: when decoding a response ends in a failure, nothing of the message
\* has been printed before the failure: neither the header, nor the question,
\* nor an earlier record.
C13_AllOrNothing ==
    (pc = "failed" /\ response # << >> /\ query # << >>) => DecoderLines = << >>

\* the timeouts send_dns_query has reported
TimedOut == Len(LinesOf("timed out"))

\* send_dns_query is over: it has returned a response or ended the process
SendOver == pc \notin { "main", "send", "recv" }

\* the steps send_dns_query can still take, at most: every step before it is
\* over lowers this
StepsLeft ==
    IF pc = "main" THEN 2 * retries + 2
    ELSE IF pc = "send" THEN 2 * (retries - attempts) + 1
    ELSE IF pc = "recv" THEN 2 * (retries - attempts) + 2
    ELSE 0

\* C14: send_dns_query sends at most `retries` times, the next attempt only
\* after the one before timed out; it returns the first response received and
\* never sends again; when every attempt has timed out it ends the process
\* with "no servers could be reached" and no response; and it always ends:
\* while it is not over a step can be taken (a receive returns or times out),
\* and every such step lowers StepsLeft, which is never negative.
C14_TransportRetry ==
    /\ [](/\ attempts <= retries
          /\ pc = "send" => TimedOut = attempts
          /\ pc = "recv" => attempts >= 1 /\ TimedOut = attempts - 1
          /\ (SendOver /\ pc # "exit" /\ query # << >>) =>
                 attempts >= 1 /\ TimedOut = attempts - 1
          /\ pc = "exit" =>
                 /\ attempts = retries /\ TimedOut = retries
                 /\ response = << >>
                 /\ out[Len(out)].line = "no servers could be reached")
    /\ [][attempts' # attempts =>
             /\ attempts' = attempts + 1 /\ pc = "send" /\ pc' = "recv"
             /\ attempts = 0 \/ out[Len(out)].line = "timed out"]_vars
    /\ [][(pc = "recv" /\ pc' # "recv") =>
             \/ pc' = "header" /\ attempts' = attempts /\ out' = out
             \/ pc' = "send" /\ attempts < retries /\ TimedOut' = TimedOut + 1
             \/ pc' = "exit" /\ attempts = retries /\ response' = << >>]_vars
    /\ [][SendOver => attempts' = attempts /\ TimedOut' = TimedOut /\ SendOver']_vars
    /\ [](StepsLeft >= 0 /\ (~SendOver => ENABLED Next))
    /\ [][~SendOver => StepsLeft' < StepsLeft]_vars

\* C14 witness: three attempts have timed out and the process has exited
C14_Witness == pc = "exit" /\ attempts = 3 /\ TimedOut = 3

\* C15: after a record of a type the decoder is to interpret (A, NS, CNAME,
\* MX, TXT, AAAA) has been processed without error, the cursor is at its RDATA
\* start + RDLENGTH, whatever its type and whatever pointers were followed
\* inside its RDATA.  (Records of any other type are covered by C12.)
C15_CursorAfterRecord ==
    \A i \in 1..Len(recs) :
        (/\ FixedRead(recs[i].at)
         /\ Accepted(i)
         /\ recs[i].at.type \in KnownTypes
         /\ recs[i].at.rdata + recs[i].at.rdlength <= Len(response)) =>
            /\ recs[i].at.end = recs[i].at.rdata + recs[i].at.rdlength
            /\ i = Len(recs) => offset = recs[i].at.rdata + recs[i].at.rdlength

RECURSIVE NameExtent(_, _)
\* the bytes the name encoded at off takes in buf: 1 + length per label, then
\* the terminator or a 2-byte pointer; -1 when no well-formed name is there
NameExtent(buf, off) ==
    IF off >= Len(buf) THEN -1
    ELSE IF At(buf, off) >= 192 THEN (IF off + 1 < Len(buf) THEN 2 ELSE -1)
    ELSE IF At(buf, off) = 0 THEN 1
    ELSE IF At(buf, off) >= 64 THEN -1
    ELSE IF NameExtent(buf, off + 1 + At(buf, off)) < 0 THEN -1
    ELSE 1 + At(buf, off) + NameExtent(buf, off + 1 + At(buf, off))

\* a name that could not be decompressed
BadName == [ok |-> FALSE, name |-> << >>]

\* label l in front of the name rest
Prepend(l, rest) ==
    IF ~l.ok \/ ~rest.ok THEN BadName ELSE [ok |-> TRUE, name |-> l.chars \o Dot \o rest.name]

RECURSIVE FullName(_, _, _)
\* the name at off by the decompression algorithm of section 4 of the spec
\* (labels, then the name at the pointer's target), each label followed by a
\* dot; `fuel` bounds the labels and pointers gone through
FullName(buf, off, fuel) ==
    IF fuel = 0 \/ off >= Len(buf) THEN BadName
    ELSE IF At(buf, off) >= 192
    THEN IF off + 1 >= Len(buf) THEN BadName
         ELSE FullName(buf, BitAnd(U16At(buf, off), 16383), fuel - 1)
    ELSE IF At(buf, off) = 0 THEN [ok |-> TRUE, name |-> << >>]
    ELSE IF At(buf, off) >= 64 THEN BadName
    ELSE Prepend(LabelAt(buf, off, At(buf, off)),
                 FullName(buf, off + 1 + At(buf, off), fuel - 1))

\* C16: the owner name of every record is read at the record's own position:
\* the 10 fixed bytes are read right after the owner name's own encoded
\* extent, whether or not that equals the question name's length, and the
\* record is printed with its own owner name.
C16_OwnerNameDecoded ==
    /\ \A i \in 1..Len(recs) :
           NameExtent(response, recs[i].at.start) > 0 =>
               recs[i].at.fixed = recs[i].at.start + NameExtent(response, recs[i].at.start)
    /\ (/\ Len(recs) = 1 /\ Len(LinesOf("record")) = 1
        /\ FullName(response, recs[1].at.start, 8).ok) =>
           LinesOf("record")[1].name = FullName(response, recs[1].at.start, 8).name

RECURSIVE PointerAt(_, _)
\* the offset of the pointer that ends the name read at off (going over the
\* labels in front of it), -1 when the name ends otherwise
PointerAt(buf, off) ==
    IF off >= Len(buf) THEN -1
    ELSE IF At(buf, off) >= 192 THEN off
    ELSE IF At(buf, off) = 0 THEN -1
    ELSE PointerAt(buf, off + 1 + At(buf, off))

\* the record whose RDATA the last call of read_name was made for
Caller == recs[Len(recs)].at

\* C17: a call of read_name that follows a pointer returns the offset of that
\* pointer + 2: the offset it was called at, plus the labels read there, plus
\* 2, whatever lies at the pointer's target; and the cursor is where that call
\* says (NS, CNAME) or where it was (AAAA), never at or after the target.
C17_PointerCostsTwoBytes ==
    (rn.err = "none" /\ Len(rn.trace) >= 2) =>
        /\ rn.trace[1] = Caller.rdata
        /\ PointerAt(response, Caller.rdata) >= Caller.rdata
        /\ rn.offset = PointerAt(response, Caller.rdata) + 2
        /\ Caller.type \in { 2, 5, 28 }
        /\ Caller.type \in { 2, 5 } => Caller.end = rn.offset /\ offset = rn.offset
        /\ Caller.type = 28 => Caller.end = Caller.rdata /\ offset = Caller.rdata

\* C17 witness: read_name was called at 42 on 'ns' followed by a pointer to the
\* 14-byte name at 12, and returned 47
C17_Witness ==
    /\ rn.err = "none" /\ rn.trace = << 42, 12 >> /\ rn.offset = 47 /\ offset = 47
    /\ Slice(response, 42, 47) = << 2, 110, 115, 192, 12 >>

\* C18: an A record is accepted (decoded to an address, the loop going on)
\* only when its RDLENGTH is 4, and an AAAA record only when its RDLENGTH is
\* 16; with any other RDLENGTH decoding fails at that record.
C18_AddressLengthChecked ==
    \A i \in 1..Len(recs) :
        (FixedRead(recs[i].at) /\ Accepted(i)) =>
            /\ recs[i].at.type = 1 => recs[i].at.rdlength = 4
            /\ recs[i].at.type = 28 => recs[i].at.rdlength = 16

\* C19: no record of any type is accepted whose RDATA, RDLENGTH bytes from
\* the end of its 10 fixed bytes, reaches past the end of the buffer: decoding
\* fails at that record.
C19_RdataWithinBuffer ==
    \A i \in 1..Len(recs) :
        (/\ FixedRead(recs[i].at)
         /\ recs[i].at.rdata + recs[i].at.rdlength > Len(response)) =>
            ~Accepted(i)

RECURSIVE BadLengthAt(_, _)
\* the offset of the first length byte of 64 or more in the name at off, going
\* from label to label; -1 when the name has none
BadLengthAt(buf, off) ==
    IF off >= Len(buf) THEN -1
    ELSE IF At(buf, off) = 0 THEN -1
    ELSE IF At(buf, off) >= 64 THEN off
    ELSE BadLengthAt(buf, off + 1 + At(buf, off))

\* C20: a length byte of 64 or more in the question name (64..191, or a
\* pointer byte of 0xC0 or more) makes parse_and_print_dns_question fail, and
\* the cursor never goes past that byte: it is not consumed as a label.
C20_QuestionLabelChecked ==
    (QuestionDecoded /\ BadLengthAt(response, 12) >= 0) =>
        /\ pc = "failed"
        /\ offset <= BadLengthAt(response, 12)

\* C21: an MX record (type 15) that is processed without error, in whichever
\* section it lies, is printed as a record line tagged MX with the preference
\* (the big-endian 16 bits at the RDATA start) and the exchange (the name
\* decompressed from RDATA start + 2).
C21_MxDecoded ==
    \A i \in 1..Len(recs) :
        (/\ FixedRead(recs[i].at)
         /\ Accepted(i)
         /\ recs[i].at.type = 15
         /\ recs[i].at.rdlength >= 3
         /\ recs[i].at.rdata + recs[i].at.rdlength <= Len(response)
         /\ FullName(response, recs[i].at.rdata + 2, 8).ok) =>
            \E k \in 1..Len(out) :
                /\ out[k].line = "record"
                /\ out[k].tags = << "IN", "MX" >>
                /\ out[k].vals = << recs[i].at.ttl, U16At(response, recs[i].at.rdata) >>
                /\ out[k].data = FullName(response, recs[i].at.rdata + 2, 8).name

\* the cursor is within the buffer, and at 12 when the header has been parsed
CursorInBounds ==
    /\ offset <= Len(response)
    /\ pc = "question" => offset = 12

\* the slices read for the records lie within the buffer: the 10 fixed bytes,
\* and the RDLENGTH address bytes of an A or AAAA record that was decoded
ReadsInBounds ==
    \A i \in 1..Len(recs) :
        FixedRead(recs[i].at) =>
            /\ recs[i].at.fixed + 10 <= Len(response)
            /\ (Accepted(i) /\ recs[i].at.type \in { 1, 28 }) =>
                   recs[i].at.rdata + recs[i].at.rdlength <= Len(response)

\* a step does not move the cursor backward
CursorForward == offset' >= offset

\* C22: in every state of a decode the cursor is at most the length of the
\* response (and is 12 once the header is parsed), every step leaves it where
\* it was or moves it forward, and what is read lies within the buffer.
C22_CursorMonotoneInBounds ==
    /\ [](CursorInBounds /\ ReadsInBounds)
    /\ [][CursorForward]_vars

\* a thread's decode is over
Decoded(c) == c.pc \in { "done", "failed" } /\ Constructed(c)

\* two threads are at the same place of parse_and_print_dns_response
SamePlace(c, d) ==
    /\ Constructed(c) /\ Constructed(d)
    /\ c.pc = d.pc /\ c.remaining = d.remaining /\ Len(c.recs) = Len(d.recs)

\* what a decode has produced: the records, the cursor, the counts, the
\* domain, the exception and the lines printed
Produced(c) ==
    << c.recs, c.offset, c.ancount, c.nscount, c.arcount, c.domain, c.domain_length,
       c.err, c.out >>

\* the bytes of a query after the transaction id
AfterId(q) == SubSeq(q, 3, Len(q))

SectionCount(sec) == Cardinality({ i \in 1..Len(recs) : recs[i].sec = sec })

\* the place of a section in the message
SectionRank(sec) == IF sec = "answer" THEN 1 ELSE IF sec = "authority" THEN 2 ELSE 3

\* the offset right after the question: its name, QTYPE and QCLASS
QuestionEnd == ParseQuestion(response, 12, 1, 1).offset

\* C24: the sections are chained through the cursor.  The first record is
\* parsed at the offset where the question ended, every later record, of the
\* same section or the first of the next one, at the offset where the record
\* before it ended, and the sections come in the order answer, authority,
\* additional; no loop runs more often than its count in the header says, and
\* when the decode is complete the answer, authority and additional loops have
\* run exactly ancount, nscount and arcount times.
C24_SectionsChained ==
    /\ Len(recs) >= 1 => recs[1].at.start = QuestionEnd
    /\ \A i \in 1..(Len(recs) - 1) :
           /\ recs[i + 1].at.start = recs[i].at.end
           /\ SectionRank(recs[i].sec) <= SectionRank(recs[i + 1].sec)
    /\ SectionCount("answer") <= hdr.ancount
    /\ SectionCount("authority") <= hdr.nscount
    /\ SectionCount("additional") <= hdr.arcount
    /\ pc = "done" =>
           /\ SectionCount("answer") = hdr.ancount
           /\ SectionCount("authority") = hdr.nscount
           /\ SectionCount("additional") = hdr.arcount

====
